---- MODULE Spec2Model ----
(***************************************************************************)
(* osfs file operations (src/file.c): osfs_read and osfs_write over a      *)
(* block store whose blocks are linked per file through sb_info->fat.      *)
(*                                                                         *)
(* One file (one osfs_inode) is modelled, on a store it shares with other  *)
(* files: the other files' blocks are the blocks set in the bitmap at      *)
(* Init.  A call runs to completion before the next one starts (the VFS    *)
(* caller serialises calls on an inode); osfs_write is modelled step by    *)
(* step, one action per loop iteration, osfs_read has no loop and is one   *)
(* action.  BLOCK_SIZE is scaled from 4096 to 2 bytes, the store to        *)
(* NBlocks blocks.                                                         *)
(***************************************************************************)
EXTENDS Integers, Sequences, FiniteSets, TLC

\* ------------------------------------------------------------------ sizes
BLOCK_SIZE == 2

NBlocks == 3

MaxOff == 5

MaxLen == 3

MaxCalls == 2

Blocks == 0 .. (NBlocks - 1)

StoreBytes == NBlocks * BLOCK_SIZE

\* A block id that lies outside the store (any id >= NBlocks).
OutOfRange == NBlocks

\* Marks a fat entry that nothing has written yet: its content is whatever
\* the memory held, fixed at the first read of the entry.
Undef == NBlocks + 1

FatVals == Blocks \cup {OutOfRange}

\* Contents of a byte no write of this file has set.
StaleBytes == {0, 255}

\* Blocks held by other files when the file is created.
OtherFilesBlocks == {{}, {1}, Blocks \ {0}, Blocks}

\* The bytes of the user buffer of the c-th call: distinct per call and
\* per position, never 0 and never a stale byte.
Payload(c, n) == [i \in 1 .. n |-> 10 * (c + 1) + i]

VARIABLES
    bitmap,             \* sb_info->block_bitmap: the allocated block ids
    fat,                \* sb_info->fat
    data,               \* sb_info->data_blocks, byte addressed
    i_block,            \* osfs_inode->i_block (head of the chain)
    i_size,             \* osfs_inode->i_size
    i_blocks,           \* osfs_inode->i_blocks
    vfs_i_size,         \* inode->i_size
    vfs_i_blocks,       \* inode->i_blocks
    pc,                 \* position of the call in flight, "idle" if none
    ppos,               \* *ppos
    len,                \* len
    buf,                \* the user buffer of a write
    valid,              \* leading bytes of the user buffer that are accessible
    fat_block_pointer,  \* osfs_write local
    pos,                \* osfs_write local
    block_count,        \* osfs_write local
    bytes_written,      \* osfs_write local
    bytes_to_write,     \* osfs_write local
    ret,                \* what the last call returned
    rbuf,               \* what the last read copied to the user buffer
    op,                 \* the last call that returned
    pre,                \* *ppos, i_size, i_blocks at entry of that call
    owned,              \* blocks the allocator handed to this file
    linked,             \* fat entries osfs_write has assigned
    oob,                \* an access outside fat or data_blocks happened
    failed,             \* some write returned an error
    calls               \* number of calls so far

vars == <<bitmap, fat, data, i_block, i_size, i_blocks, vfs_i_size,
          vfs_i_blocks, pc, ppos, len, buf, valid, fat_block_pointer, pos,
          block_count, bytes_written, bytes_to_write, ret, rbuf, op, pre,
          owned, linked, oob, failed, calls>>

store == <<bitmap, fat, data>>

inode == <<i_block, i_size, i_blocks, vfs_i_size, vfs_i_blocks>>

locals == <<fat_block_pointer, pos, block_count, bytes_written,
            bytes_to_write>>

Count(n) == [kind |-> "count", n |-> n]

Errno(e) == [kind |-> e, n |-> 0]

NoRet == [kind |-> "none", n |-> 0]

\* ------------------------------------------------------- pure code pieces
\* osfs_alloc_data_block: the ids it may return; none when exhausted.
FreeBlocks(bm) == Blocks \ bm

\* line 104: the condition of the chain-walk loop.
WalkCond(p, bc, off, nblk) == p + BLOCK_SIZE < off /\ bc < nblk

\* line 112: the condition of the hole loop.
HoleCond(p, off) == p + BLOCK_SIZE < off

\* line 130: bytes copied into the block the walk ended on.
FirstChunk(off, n) ==
    IF (off % BLOCK_SIZE) + n > BLOCK_SIZE
    THEN BLOCK_SIZE - (off % BLOCK_SIZE)
    ELSE n

\* line 140: the condition of the tail loop.
TailCond(off, n, nblk) == off + n > nblk * BLOCK_SIZE

\* line 155: bytes copied into a block the tail loop allocated.
TailChunk(btw) == IF btw < BLOCK_SIZE THEN btw ELSE BLOCK_SIZE

\* i_size set to the end of the write even when that lies inside the file.
NewSize_NoMax(off, bw, size) == off + bw

\* line 164: the new i_size.
NewSize(off, bw, size) == IF off + bw > size THEN off + bw ELSE size

\* *ppos advanced by the bytes transferred instead of the bytes requested.
NewPos_Transferred(off, n, bw) == off + bw

\* line 166: the new *ppos of a write.
NewPos(off, n, bw) == off + n

\* The length of a read without the clamp to the bytes left in the file.
ReadLen_NoClamp(off, n, size) == n

\* lines 35-36: the clamped length of a read.
ReadLen(off, n, size) == IF off + n > size THEN size - off ELSE n

\* line 41: the store address a read starts at.
ReadAddr(head, off) == head * BLOCK_SIZE + off

\* memset / copy_from_user into data_blocks at address a: bytes s.
Store(d, a, s) ==
    [x \in DOMAIN d |->
        IF x >= a /\ x < a + Len(s) THEN s[x - a + 1] ELSE d[x]]

Zeros(n) == [i \in 1 .. n |-> 0]

\* copy_from_user(dst, buf + k, n) succeeds when the n bytes are accessible.
CopyOK(v, k, n) == n = 0 \/ k + n <= v

\* What copy_from_user(dst, buf + k, n) leaves in dst: the accessible bytes,
\* and zeros for the bytes it could not read.
UserBytes(b, v, k, n) == [i \in 1 .. n |-> IF k + i <= v THEN b[k + i] ELSE 0]

\* ------------------------------------------------------------------- Init
Init ==
    /\ bitmap \in OtherFilesBlocks
    /\ fat = [b \in Blocks |-> Undef]
    /\ \E s \in StaleBytes : data = [a \in 0 .. (StoreBytes - 1) |-> s]
    /\ i_block = 0
    /\ i_size = 0
    /\ i_blocks = 0
    /\ vfs_i_size = 0
    /\ vfs_i_blocks = 0
    /\ pc = "idle"
    /\ ppos = 0
    /\ len = 0
    /\ buf = <<>>
    /\ valid = 0
    /\ fat_block_pointer = 0
    /\ pos = 0
    /\ block_count = 0
    /\ bytes_written = 0
    /\ bytes_to_write = 0
    /\ ret = NoRet
    /\ rbuf = <<>>
    /\ op = "none"
    /\ pre = [ppos |-> 0, i_size |-> 0, i_blocks |-> 0]
    /\ owned = {}
    /\ linked = {}
    /\ oob = FALSE
    /\ failed = FALSE
    /\ calls = 0

\* A return of osfs_write with value r.  bytes_written and bytes_to_write
\* keep the values they had at the return.
Return(r) ==
    /\ pc' = "idle"
    /\ ret' = r
    /\ op' = "write"
    /\ rbuf' = <<>>
    /\ failed' = (failed \/ r.kind # "count")
    /\ fat_block_pointer' = 0
    /\ pos' = 0
    /\ block_count' = 0

\* ------------------------------------------------------------- osfs_write
\* lines 66-77: entry.
WriteEnter(off, n, v) ==
    /\ pc = "idle"
    /\ calls' = calls + 1
    /\ pc' = "head"
    /\ ppos' = off
    /\ len' = n
    /\ buf' = Payload(calls, n)
    /\ valid' = v
    /\ bytes_written' = 0
    /\ bytes_to_write' = n
    /\ pre' = [ppos |-> off, i_size |-> i_size, i_blocks |-> i_blocks]
    /\ ret' = NoRet
    /\ rbuf' = <<>>
    /\ op' = "none"
    /\ UNCHANGED <<store, inode, fat_block_pointer, pos, block_count, owned,
                   oob, failed, linked>>

WriteCall(off, n, v) == calls < MaxCalls /\ WriteEnter(off, n, v)

\* lines 79-93: the first block of an empty file.
WriteAllocHead ==
    /\ pc = "head"
    /\ i_blocks = 0
    /\ FreeBlocks(bitmap) # {}
    /\ \E b \in FreeBlocks(bitmap) :
        /\ bitmap' = bitmap \cup {b}
        /\ owned' = owned \cup {b}
        /\ i_block' = b
        /\ fat_block_pointer' = b
    /\ i_size' = 0
    /\ vfs_i_size' = 0
    /\ i_blocks' = 1
    /\ vfs_i_blocks' = 1
    /\ pos' = 0
    /\ block_count' = 0
    /\ pc' = "walk"
    /\ UNCHANGED <<fat, data, ppos, len, buf, valid, bytes_written,
                   bytes_to_write, ret, rbuf, op, pre, oob, calls, failed,
                   linked>>

\* lines 83-87: the allocator has no block for the head.
WriteAllocHeadFail ==
    /\ pc = "head"
    /\ i_blocks = 0
    /\ FreeBlocks(bitmap) = {}
    /\ Return(Errno("ENOSPC"))
    /\ UNCHANGED <<store, inode, ppos, len, buf, valid, pre, owned, oob,
                   bytes_written, bytes_to_write, calls, linked>>

\* lines 79, 97-104: the file has a head already.
WriteHasHead ==
    /\ pc = "head"
    /\ i_blocks # 0
    /\ fat_block_pointer' = i_block
    /\ pos' = 0
    /\ block_count' = 0
    /\ pc' = "walk"
    /\ UNCHANGED <<store, inode, ppos, len, buf, valid, bytes_written,
                   bytes_to_write, ret, rbuf, op, pre, owned, oob, calls,
                   failed, linked>>

\* A chain-walk iteration without the loop increment of pos, block_count.
WriteWalk_NoAdvance ==
    /\ pc = "walk"
    /\ WalkCond(pos, block_count, ppos, i_blocks)
    /\ IF fat_block_pointer \in Blocks
       THEN IF fat[fat_block_pointer] # Undef
            THEN /\ fat_block_pointer' = fat[fat_block_pointer]
                 /\ UNCHANGED <<fat, oob>>
            ELSE \E v \in FatVals :
                    /\ fat_block_pointer' = v
                    /\ fat' = [fat EXCEPT ![fat_block_pointer] = v]
                    /\ UNCHANGED oob
       ELSE /\ \E v \in FatVals : fat_block_pointer' = v
            /\ oob' = TRUE
            /\ UNCHANGED fat
    /\ UNCHANGED <<bitmap, data, inode, pc, ppos, len, buf, valid, pos,
                   block_count, bytes_written, bytes_to_write, ret, rbuf, op,
                   pre, owned, linked, calls, failed>>

\* lines 104-108: one iteration of the chain walk.  The entry read is
\* fat[fat_block_pointer]; an entry nothing has written, or one outside
\* the table, holds any value.
WriteWalk ==
    /\ pc = "walk"
    /\ WalkCond(pos, block_count, ppos, i_blocks)
    /\ IF fat_block_pointer \in Blocks
       THEN IF fat[fat_block_pointer] # Undef
            THEN /\ fat_block_pointer' = fat[fat_block_pointer]
                 /\ UNCHANGED <<fat, oob>>
            ELSE \E v \in FatVals :
                    /\ fat_block_pointer' = v
                    /\ fat' = [fat EXCEPT ![fat_block_pointer] = v]
                    /\ UNCHANGED oob
       ELSE /\ \E v \in FatVals : fat_block_pointer' = v
            /\ oob' = TRUE
            /\ UNCHANGED fat
    /\ pos' = pos + BLOCK_SIZE
    /\ block_count' = block_count + 1
    /\ UNCHANGED <<bitmap, data, inode, pc, ppos, len, buf, valid,
                   bytes_written, bytes_to_write, ret, rbuf, op, pre, owned,
                   linked, calls, failed>>

\* line 104: the walk ends.
WriteWalkEnd ==
    /\ pc = "walk"
    /\ ~WalkCond(pos, block_count, ppos, i_blocks)
    /\ pc' = "hole"
    /\ UNCHANGED <<store, inode, ppos, len, buf, valid, locals, ret, rbuf,
                   op, pre, owned, oob, calls, failed, linked>>

\* fat[p] = b (lines 125, 151); a store outside the table changes no entry.
Link(p, b) ==
    IF p \in Blocks
    THEN /\ fat' = [fat EXCEPT ![p] = b]
         /\ linked' = linked \cup {p}
         /\ UNCHANGED oob
    ELSE /\ oob' = TRUE
         /\ UNCHANGED <<fat, linked>>

\* lines 112-128: one iteration of the hole loop.
WriteHole ==
    /\ pc = "hole"
    /\ HoleCond(pos, ppos)
    /\ FreeBlocks(bitmap) # {}
    /\ \E b \in FreeBlocks(bitmap) :
        /\ bitmap' = bitmap \cup {b}
        /\ owned' = owned \cup {b}
        /\ data' = Store(data, b * BLOCK_SIZE, Zeros(BLOCK_SIZE))
        /\ Link(fat_block_pointer, b)
        /\ fat_block_pointer' = b
    /\ i_blocks' = i_blocks + 1
    /\ vfs_i_blocks' = i_blocks + 1
    /\ pos' = pos + BLOCK_SIZE
    /\ UNCHANGED <<i_block, i_size, vfs_i_size, pc, ppos, len, buf, valid,
                   block_count, bytes_written, bytes_to_write, ret, rbuf, op,
                   pre, calls, failed>>

\* lines 117-121: the allocator fails in the hole loop.
WriteHoleFail ==
    /\ pc = "hole"
    /\ HoleCond(pos, ppos)
    /\ FreeBlocks(bitmap) = {}
    /\ Return(Errno("ENOSPC"))
    /\ UNCHANGED <<store, inode, ppos, len, buf, valid, pre, owned, oob,
                   bytes_written, bytes_to_write, calls, linked>>

\* lines 130-136: the copy into the block the walk ended on.
WriteCopy ==
    /\ pc = "hole"
    /\ ~HoleCond(pos, ppos)
    /\ LET n == FirstChunk(ppos, len)
           a == fat_block_pointer * BLOCK_SIZE + (ppos % BLOCK_SIZE)
       IN  /\ CopyOK(valid, 0, n)
           /\ IF fat_block_pointer \in Blocks
              THEN /\ data' = Store(data, a, UserBytes(buf, valid, 0, n))
                   /\ UNCHANGED oob
              ELSE /\ oob' = (oob \/ n > 0)
                   /\ UNCHANGED data
           /\ bytes_to_write' = bytes_to_write - n
           /\ bytes_written' = bytes_written + n
    /\ pc' = "tail"
    /\ UNCHANGED <<bitmap, fat, inode, ppos, len, buf, valid,
                   fat_block_pointer, pos, block_count, ret, rbuf, op, pre,
                   owned, calls, failed, linked>>

\* lines 133-134: copy_from_user fails; the destination has received the
\* accessible bytes and zeros for the rest.
WriteCopyFault ==
    /\ pc = "hole"
    /\ ~HoleCond(pos, ppos)
    /\ LET n == FirstChunk(ppos, len)
           a == fat_block_pointer * BLOCK_SIZE + (ppos % BLOCK_SIZE)
       IN  /\ ~CopyOK(valid, 0, n)
           /\ IF fat_block_pointer \in Blocks
              THEN /\ data' = Store(data, a, UserBytes(buf, valid, 0, n))
                   /\ UNCHANGED oob
              ELSE /\ oob' = TRUE
                   /\ UNCHANGED data
    /\ Return(Errno("EFAULT"))
    /\ UNCHANGED <<bitmap, fat, inode, ppos, len, buf, valid, pre, owned,
                   bytes_written, bytes_to_write, calls, linked>>

\* A tail-loop iteration that extends i_size as soon as its block is copied.
WriteTail_SizeEarly ==
    /\ pc = "tail"
    /\ TailCond(ppos, len, i_blocks)
    /\ FreeBlocks(bitmap) # {}
    /\ LET n == TailChunk(bytes_to_write)
       IN  /\ CopyOK(valid, bytes_written, n)
           /\ \E b \in FreeBlocks(bitmap) :
                /\ bitmap' = bitmap \cup {b}
                /\ owned' = owned \cup {b}
                /\ Link(fat_block_pointer, b)
                /\ fat_block_pointer' = b
                /\ data' = Store(data, b * BLOCK_SIZE,
                                 UserBytes(buf, valid, bytes_written, n))
           /\ bytes_to_write' = bytes_to_write - n
           /\ bytes_written' = bytes_written + n
           /\ i_size' = NewSize(ppos, bytes_written + n, i_size)
           /\ vfs_i_size' = NewSize(ppos, bytes_written + n, i_size)
    /\ i_blocks' = i_blocks + 1
    /\ vfs_i_blocks' = i_blocks + 1
    /\ UNCHANGED <<i_block, pc, ppos, len, buf, valid, pos, block_count, ret,
                   rbuf, op, pre, calls, failed>>

\* lines 140-160: one iteration of the tail loop.
WriteTail ==
    /\ pc = "tail"
    /\ TailCond(ppos, len, i_blocks)
    /\ FreeBlocks(bitmap) # {}
    /\ LET n == TailChunk(bytes_to_write)
       IN  /\ CopyOK(valid, bytes_written, n)
           /\ \E b \in FreeBlocks(bitmap) :
                /\ bitmap' = bitmap \cup {b}
                /\ owned' = owned \cup {b}
                /\ Link(fat_block_pointer, b)
                /\ fat_block_pointer' = b
                /\ data' = Store(data, b * BLOCK_SIZE,
                                 UserBytes(buf, valid, bytes_written, n))
           /\ bytes_to_write' = bytes_to_write - n
           /\ bytes_written' = bytes_written + n
    /\ i_blocks' = i_blocks + 1
    /\ vfs_i_blocks' = i_blocks + 1
    /\ UNCHANGED <<i_block, i_size, vfs_i_size, pc, ppos, len, buf, valid,
                   pos, block_count, ret, rbuf, op, pre, calls, failed>>

\* lines 144-148: the allocator fails in the tail loop.
WriteTailFail ==
    /\ pc = "tail"
    /\ TailCond(ppos, len, i_blocks)
    /\ FreeBlocks(bitmap) = {}
    /\ Return(Errno("ENOSPC"))
    /\ UNCHANGED <<store, inode, ppos, len, buf, valid, pre, owned, oob,
                   bytes_written, bytes_to_write, calls, linked>>

\* The fault return of the tail loop taken before i_blocks is incremented.
WriteTailFault_NoCount ==
    /\ pc = "tail"
    /\ TailCond(ppos, len, i_blocks)
    /\ FreeBlocks(bitmap) # {}
    /\ ~CopyOK(valid, bytes_written, TailChunk(bytes_to_write))
    /\ \E b \in FreeBlocks(bitmap) :
        /\ bitmap' = bitmap \cup {b}
        /\ owned' = owned \cup {b}
        /\ Link(fat_block_pointer, b)
        /\ data' = Store(data, b * BLOCK_SIZE,
                         UserBytes(buf, valid, bytes_written,
                                   TailChunk(bytes_to_write)))
    /\ Return(Errno("EFAULT"))
    /\ UNCHANGED <<inode, ppos, len, buf, valid, pre, bytes_written,
                   bytes_to_write, calls>>

\* lines 143-157: the block is allocated and linked, copy_from_user fails.
WriteTailFault ==
    /\ pc = "tail"
    /\ TailCond(ppos, len, i_blocks)
    /\ FreeBlocks(bitmap) # {}
    /\ ~CopyOK(valid, bytes_written, TailChunk(bytes_to_write))
    /\ \E b \in FreeBlocks(bitmap) :
        /\ bitmap' = bitmap \cup {b}
        /\ owned' = owned \cup {b}
        /\ Link(fat_block_pointer, b)
        /\ data' = Store(data, b * BLOCK_SIZE,
                         UserBytes(buf, valid, bytes_written,
                                   TailChunk(bytes_to_write)))
    /\ i_blocks' = i_blocks + 1
    /\ vfs_i_blocks' = i_blocks + 1
    /\ Return(Errno("EFAULT"))
    /\ UNCHANGED <<i_block, i_size, vfs_i_size, ppos, len, buf, valid, pre,
                   bytes_written, bytes_to_write, calls>>

\* lines 162-171: size, cursor, return value.
WriteDone ==
    /\ pc = "tail"
    /\ ~TailCond(ppos, len, i_blocks)
    /\ i_size' = NewSize(ppos, bytes_written, i_size)
    /\ vfs_i_size' = NewSize(ppos, bytes_written, i_size)
    /\ ppos' = NewPos(ppos, len, bytes_written)
    /\ Return(Count(bytes_written))
    /\ UNCHANGED <<store, i_block, i_blocks, vfs_i_blocks, len, buf, valid,
                   pre, owned, oob, bytes_written, bytes_to_write, calls,
                   linked>>

\* -------------------------------------------------------------- osfs_read
\* line 43: the byte sequences copy_to_user may deliver for l bytes from
\* store address a; a byte beyond the store holds any value.
ReadResults(d, a, l) ==
    { [i \in 1 .. l |->
          IF a + i - 1 < StoreBytes THEN d[a + i - 1] ELSE g[i]] :
      g \in [1 .. l -> StaleBytes] }

ReadReturn(r, s) ==
    /\ ret' = r
    /\ rbuf' = s
    /\ op' = "read"
    /\ UNCHANGED <<store, inode, pc, buf, locals, owned, failed, linked>>

\* The early returns without the test of *ppos against i_size.
ReadEmpty_NoSizeCheck(nblk, off, size) == nblk = 0

\* lines 27-32: the early returns of osfs_read.
ReadEmpty(nblk, off, size) == nblk = 0 \/ off >= size

\* *ppos advanced by the bytes requested instead of the bytes copied.
ReadPos_Requested(off, n, l) == off + n

\* line 46: the new *ppos of a read (len is the clamped length there).
ReadPos(off, n, l) == off + l

\* lines 18-50.  ok: the user buffer is accessible to copy_to_user.
ReadCall(off, n, ok) ==
    /\ pc = "idle"
    /\ calls' = calls + 1
    /\ len' = n
    /\ valid' = IF ok THEN n ELSE 0
    /\ pre' = [ppos |-> off, i_size |-> i_size, i_blocks |-> i_blocks]
    /\ IF ReadEmpty(i_blocks, off, i_size)
       THEN /\ ReadReturn(Count(0), <<>>)
            /\ ppos' = off
            /\ UNCHANGED oob
       ELSE LET l == ReadLen(off, n, i_size)
                a == ReadAddr(i_block, off)
            IN  /\ oob' = (oob \/ a + l > StoreBytes)
                /\ IF l > 0 /\ ~ok
                   THEN /\ ReadReturn(Errno("EFAULT"), <<>>)
                        /\ ppos' = off
                   ELSE /\ \E s \in ReadResults(data, a, l) :
                            ReadReturn(Count(l), s)
                        /\ ppos' = ReadPos(off, n, l)

Read ==
    /\ calls < MaxCalls
    /\ \E off \in 0 .. MaxOff, n \in 0 .. MaxLen, ok \in BOOLEAN :
          ReadCall(off, n, ok)

Write ==
    \E off \in 0 .. MaxOff, n \in 0 .. MaxLen :
        \E v \in 0 .. n : WriteCall(off, n, v)

\* ------------------------------------------------------------------- Next
Next ==
    \/ Write
    \/ WriteAllocHead
    \/ WriteAllocHeadFail
    \/ WriteHasHead
    \/ WriteWalk
    \/ WriteWalkEnd
    \/ WriteHole
    \/ WriteHoleFail
    \/ WriteCopy
    \/ WriteCopyFault
    \/ WriteTail
    \/ WriteTailFail
    \/ WriteTailFault
    \/ WriteDone
    \/ Read

Spec == Init /\ [][Next]_vars

\* ----------------------------------------------------- the file's chain
\* The block k hops from the head along the links osfs_write has stored in
\* fat; OutOfRange when the walk meets an entry no write has assigned.
RECURSIVE ChainAt(_)
ChainAt(k) ==
    IF k = 0
    THEN i_block
    ELSE LET b == ChainAt(k - 1)
         IN  IF b \in linked THEN fat[b] ELSE OutOfRange

\* The byte of the file at logical offset p, read through the chain.
InChain(p) == ChainAt(p \div BLOCK_SIZE) \in Blocks

ChainByte(p) ==
    data[ChainAt(p \div BLOCK_SIZE) * BLOCK_SIZE + (p % BLOCK_SIZE)]

Ceil(n) == (n + BLOCK_SIZE - 1) \div BLOCK_SIZE

Max(a, b) == IF a > b THEN a ELSE b

Returned == pc = "idle" /\ op = "write"

WroteAll == Returned /\ ret.kind = "count" /\ ret.n = len

\* ------------------------------------------------------------------ C1
\* C1: a write of data at offset off that succeeds, followed at once by a
\* read at off of len(data) bytes, returns exactly data.
C1_RoundTrip ==
    [][(/\ WroteAll
        /\ op' = "read"
        /\ pre'.ppos = pre.ppos
        /\ len' = Len(buf)
        /\ ret'.kind # "EFAULT")
       => (ret' = Count(Len(buf)) /\ rbuf' = buf)]_vars

\* ------------------------------------------------------------------ C2
\* C2: after a successful write at an offset beyond the old i_size, a read
\* of the skipped range [old i_size, offset) returns offset - old i_size
\* bytes, all zero.
C2_HoleZeroFill ==
    [][(/\ WroteAll
        /\ pre.ppos > pre.i_size
        /\ op' = "read"
        /\ pre'.ppos = pre.i_size
        /\ len' = pre.ppos - pre.i_size
        /\ ret'.kind # "EFAULT")
       => (ret' = Count(len') /\ rbuf' = Zeros(len'))]_vars

\* ------------------------------------------------------------------ C3
\* C3: after any sequence of successful writes from the empty file,
\* i_blocks = ceil(i_size / BLOCK_SIZE).
C3_BlocksCoverSize ==
    (pc = "idle" /\ ~failed) => i_blocks = Ceil(i_size)

\* ------------------------------------------------------------------ C4
\* The i_blocks blocks reached from the head.
ChainBlocks == {ChainAt(k) : k \in 0 .. (i_blocks - 1)}

\* Following fat from the head visits i_blocks distinct blocks of this
\* file, and the last one has no successor (osfs_write stores no end
\* marker: an entry no write has assigned counts as the end of the chain).
ChainWellFormed ==
    i_blocks > 0 =>
        /\ \A k \in 0 .. (i_blocks - 1) : ChainAt(k) \in owned
        /\ Cardinality(ChainBlocks) = i_blocks
        /\ ChainAt(i_blocks - 1) \notin linked

\* No step replaces the successor of a block of the chain.
NoRelink ==
    \A k \in 0 .. (i_blocks - 2) :
        ChainAt(k) \in Blocks => fat'[ChainAt(k)] = fat[ChainAt(k)]

\* C4: after any sequence of writes the chain from the head has exactly
\* i_blocks blocks, all of this file and distinct, then ends; and no write
\* overwrites the next-pointer of a block that has a successor.
C4_ChainWellFormed ==
    /\ [](pc = "idle" => ChainWellFormed)
    /\ [][NoRelink]_vars

\* ------------------------------------------------------------------ C5
\* The bytes the call copied lie in the chain at their logical offsets.
CommittedInChain ==
    \A i \in 1 .. bytes_written :
        /\ InChain(pre.ppos + i - 1)
        /\ ChainByte(pre.ppos + i - 1) = buf[i]

\* C5: a write in which the allocator fails after blocks were committed
\* returns the allocator's error, leaves the committed bytes in the chain,
\* and leaves i_size and i_blocks reflecting what was committed.
C5_ExhaustionKeepsCommitted ==
    (Returned /\ ret.kind = "ENOSPC" /\ bytes_written > 0) =>
        /\ CommittedInChain
        /\ i_size = Max(pre.i_size, pre.ppos + bytes_written)
        /\ i_blocks = Cardinality(owned)

\* ------------------------------------------------------------------ C6
\* C6: a write of 0 bytes returns 0, allocates no block when the file had
\* none, and leaves i_size unchanged.  (Stated for the calls that return a
\* count; the call that finds the allocator empty returns its error.)
C6_ZeroLengthWrite ==
    (Returned /\ len = 0 /\ ret.kind = "count") =>
        /\ ret = Count(0)
        /\ (pre.i_blocks = 0 => i_blocks = 0 /\ owned = {})
        /\ i_size = pre.i_size

\* ------------------------------------------------------------------ C8
\* C8: i_size never decreases, and after a write that returns a byte count
\* it is max(i_size before the call, starting offset + count returned).
C8_SizeMonotone ==
    /\ [][i_size' >= i_size]_vars
    /\ []((Returned /\ ret.kind = "count") =>
            i_size = Max(pre.i_size, pre.ppos + ret.n))

\* A write inside the file kept i_size, after an earlier one extended it.
C8_Witness ==
    /\ Returned
    /\ ret.kind = "count"
    /\ ret.n > 0
    /\ pre.i_size > pre.ppos + ret.n
    /\ i_size = pre.i_size

\* ------------------------------------------------------------------ C9
\* C9: every byte a read returns is the byte of the chain block covering
\* its logical offset.
C9_ReadFollowsChain ==
    (pc = "idle" /\ op = "read" /\ ret.kind = "count") =>
        \A i \in 1 .. ret.n :
            /\ InChain(pre.ppos + i - 1)
            /\ rbuf[i] = ChainByte(pre.ppos + i - 1)

\* ----------------------------------------------------------------- C10
\* C10: a write that returns a byte count advances *ppos by len, also when
\* the count is smaller than len; a write that returns an error leaves
\* *ppos unchanged.
C10_CursorAdvance ==
    Returned =>
        IF ret.kind = "count"
        THEN ppos = pre.ppos + len
        ELSE ppos = pre.ppos

\* A short write: fewer bytes transferred than requested.
C10_Witness ==
    /\ Returned
    /\ ret.kind = "count"
    /\ ret.n < len
    /\ ppos = pre.ppos + len

\* ------------------------------------------------------------------ C7
\* The two-write scenario, scaled from BLOCK_SIZE = 4096 to BLOCK_SIZE:
\* BLOCK_SIZE + 1 bytes at offset 0 (5000 at 0), then 1 byte at offset
\* 2 * BLOCK_SIZE + 1, inside the third block (10 at 10000), then reads of
\* the hole and of the payload.  All blocks of the store are free.
ScenarioInit == Init /\ bitmap = {}

ScenarioWrite1 ==
    calls = 0 /\ WriteEnter(0, BLOCK_SIZE + 1, BLOCK_SIZE + 1)

ScenarioWrite2 ==
    calls = 1 /\ WriteEnter(2 * BLOCK_SIZE + 1, 1, 1)

ScenarioReadHole ==
    calls = 2 /\ ReadCall(BLOCK_SIZE + 1, BLOCK_SIZE, TRUE)

ScenarioReadPayload ==
    calls = 3 /\ ReadCall(2 * BLOCK_SIZE + 1, 1, TRUE)

ScenarioNext ==
    \/ ScenarioWrite1
    \/ ScenarioWrite2
    \/ ScenarioReadHole
    \/ ScenarioReadPayload
    \/ WriteAllocHead
    \/ WriteHasHead
    \/ WriteWalk
    \/ WriteWalkEnd
    \/ WriteCopy
    \/ WriteTail
    \/ WriteDone

SpecScenario == ScenarioInit /\ [][ScenarioNext]_vars

\* C7: after the first write i_size = BLOCK_SIZE + 1, i_blocks = 2 and the
\* chain is head -> block1; after the second i_blocks = 3,
\* i_size = 2 * BLOCK_SIZE + 2, the chain is head -> block1 -> block2 and
\* the payload lies in the third chain block at its intra-block offset;
\* the hole reads back as zeros and the payload as written.
C7_TwoWriteScenario ==
    /\ (calls = 1 /\ Returned) =>
            /\ i_size = BLOCK_SIZE + 1
            /\ i_blocks = 2
            /\ ChainWellFormed
    /\ (calls = 2 /\ Returned) =>
            /\ i_blocks = 3
            /\ i_size = 2 * BLOCK_SIZE + 2
            /\ ChainWellFormed
            /\ InChain(2 * BLOCK_SIZE + 1)
            /\ ChainByte(2 * BLOCK_SIZE + 1) = buf[1]
    /\ (calls = 3 /\ op = "read") =>
            /\ ret = Count(BLOCK_SIZE)
            /\ rbuf = Zeros(BLOCK_SIZE)
    /\ (calls = 4 /\ op = "read") =>
            /\ ret = Count(1)
            /\ rbuf = buf

\* ----------------------------------------------------------------- C11
ReadReturned == pc = "idle" /\ op = "read"

\* C11: a read at an offset below i_size that asks for more than the file
\* holds returns exactly i_size - offset bytes, and no read returns more
\* than i_size - offset bytes.  (Stated for the reads that return a byte
\* count; a read whose copy_to_user fails returns the fault.)
C11_ReadClamp ==
    (ReadReturned /\ ret.kind = "count") =>
        /\ Len(rbuf) = ret.n
        /\ pre.ppos < pre.i_size => ret.n <= pre.i_size - pre.ppos
        /\ (pre.ppos < pre.i_size /\ pre.ppos + len > pre.i_size) =>
                ret.n = pre.i_size - pre.ppos
        /\ pre.ppos >= pre.i_size => ret.n = 0

\* A read that was clamped to fewer bytes than it asked for.
C11_Witness ==
    /\ ReadReturned
    /\ ret.kind = "count"
    /\ pre.ppos < pre.i_size
    /\ pre.ppos + len > pre.i_size
    /\ ret.n = pre.i_size - pre.ppos
    /\ ret.n > 0
    /\ ret.n < len

\* ----------------------------------------------------------------- C12
\* C12: when the file has no blocks or the offset is at or past i_size,
\* the read returns 0 bytes and no error, transfers nothing to the user
\* buffer (so it succeeds even with an inaccessible buffer), touches no
\* byte outside the store and leaves *ppos unchanged.
C12_ReadAtOrPastEnd ==
    [][(/\ pc = "idle"
        /\ op' = "read"
        /\ calls' # calls
        /\ (i_blocks = 0 \/ pre'.ppos >= i_size))
       => (/\ ret' = Count(0)
           /\ rbuf' = <<>>
           /\ ppos' = pre'.ppos
           /\ oob' = oob)]_vars

\* A read past the end of a non-empty file with an inaccessible buffer
\* and a non-zero length returned 0.
C12_Witness ==
    /\ ReadReturned
    /\ pre.i_blocks > 0
    /\ pre.ppos > pre.i_size
    /\ len > 0
    /\ valid = 0
    /\ ret = Count(0)
    /\ ppos = pre.ppos

\* ----------------------------------------------------------------- C13
\* C13: a write of len bytes at offset off that returns a byte count
\* returns len, and byte i of the data lies in the chain block
\* (off + i) div BLOCK_SIZE hops from the head at intra-block offset
\* (off + i) mod BLOCK_SIZE, also when off is a multiple of BLOCK_SIZE and
\* when the range crosses a block boundary inside allocated blocks.
C13_WritePlacement ==
    (Returned /\ ret.kind = "count") =>
        /\ ret.n = len
        /\ \A i \in 1 .. len :
              /\ InChain(pre.ppos + i - 1)
              /\ ChainByte(pre.ppos + i - 1) = buf[i]

\* ----------------------------------------------------------------- C14
Min(a, b) == IF a < b THEN a ELSE b

\* C14: the chain walk at the start of osfs_write follows at most
\* min(offset div BLOCK_SIZE, i_blocks - 1) next-pointers, the block it
\* stands on is the chain block that many hops from the head, and it never
\* reads the fat entry of the chain's last block, which no write has set.
C14_WalkStaysInChain ==
    /\ [](pc = "walk" =>
            /\ block_count <= Min(ppos \div BLOCK_SIZE, i_blocks - 1)
            /\ fat_block_pointer = ChainAt(block_count)
            /\ fat_block_pointer \in owned)
    /\ [][(pc = "walk" /\ block_count' = block_count + 1) =>
            fat_block_pointer \in linked]_vars

\* ----------------------------------------------------------------- C15
\* The step stores into data_blocks only inside blocks of this file.
DataStoresInFile ==
    \A a \in DOMAIN data :
        data'[a] # data[a] => (a \div BLOCK_SIZE) \in owned'

\* The step assigns fat entries only of blocks of this file.
FatStoresInFile ==
    \A b \in Blocks :
        (b \in linked' /\ (b \notin linked \/ fat'[b] # fat[b])) =>
            b \in owned'

\* C15: every data copy and zero-fill of osfs_write targets a block of the
\* file being written, and every fat entry it assigns is that of a block
\* of the file; so on a store shared with other files no write changes a
\* byte of a block, or the fat entry of a block, that another file holds.
C15_WritesStayInFile ==
    [][DataStoresInFile /\ FatStoresInFile]_vars

\* ----------------------------------------------------------------- C16
\* Each allocation comes with the i_blocks increment on both inodes and,
\* for a block appended to the chain, the link fat[previous] = new block.
AllocationCounted ==
    owned' # owned =>
        /\ Cardinality(owned') = Cardinality(owned) + 1
        /\ i_blocks' = i_blocks + 1
        /\ vfs_i_blocks' = i_blocks'
        /\ (owned # {} /\ fat_block_pointer \in Blocks) =>
                /\ fat_block_pointer \in linked'
                /\ fat'[fat_block_pointer] \in owned' \ owned

\* C16: at every return point of osfs_write, the error returns included,
\* i_blocks equals the number of blocks the allocator has handed to the
\* file; each allocation is followed by the increment and the link before
\* any further allocation or return; and the VFS inode's i_blocks equals
\* the osfs_inode's.
C16_BlocksCounted ==
    /\ [](i_blocks = Cardinality(owned) /\ vfs_i_blocks = i_blocks)
    /\ [][AllocationCounted]_vars

\* A call that returned a transfer fault from the tail loop, after the
\* block of that iteration was allocated and counted.
C16_Witness ==
    /\ Returned
    /\ ret.kind = "EFAULT"
    /\ bytes_written > 0
    /\ i_blocks > pre.i_blocks
    /\ i_blocks = Cardinality(owned)
    /\ vfs_i_blocks = i_blocks

\* ----------------------------------------------------------------- C17
\* The stages of a call in source order: head block, chain walk, hole
\* loop and first copy, tail loop, then the size update and the return.
StageOrder ==
    {<<"idle", "head">>, <<"head", "walk">>, <<"walk", "hole">>,
     <<"hole", "tail">>, <<"head", "idle">>, <<"hole", "idle">>,
     <<"tail", "idle">>}

\* i_size and the VFS copy change only in the step that ends the tail loop
\* and returns the byte count.
SizeUpdatedLast ==
    (i_size' # i_size \/ vfs_i_size' # vfs_i_size) =>
        /\ pc = "tail"
        /\ ~TailCond(ppos, len, i_blocks)
        /\ pc' = "idle"
        /\ ret'.kind = "count"

\* C17: within one osfs_write call i_size is updated only after the last
\* block copy, the stages following each other in source order; a call
\* that ends in a transfer fault returns the fault, no byte count, and
\* leaves i_size and *ppos as they were at entry; a read whose
\* copy_to_user fails returns the fault and leaves *ppos unchanged.
C17_SizeAfterCopies ==
    /\ [][SizeUpdatedLast]_vars
    /\ [][pc' # pc => <<pc, pc'>> \in StageOrder]_vars
    /\ []((pc = "idle" /\ ret.kind = "EFAULT") =>
            /\ ret = Errno("EFAULT")
            /\ i_size = pre.i_size
            /\ vfs_i_size = i_size
            /\ ppos = pre.ppos)

\* A write whose first copy succeeded and whose tail copy faulted.
C17_Witness ==
    /\ Returned
    /\ ret.kind = "EFAULT"
    /\ bytes_written > 0
    /\ pre.ppos + bytes_written > pre.i_size
    /\ i_size = pre.i_size
    /\ ppos = pre.ppos

\* ----------------------------------------------------------------- C18
\* The steps inside a running osfs_write call.
WriteStep ==
    \/ WriteAllocHead
    \/ WriteAllocHeadFail
    \/ WriteHasHead
    \/ WriteWalk
    \/ WriteWalkEnd
    \/ WriteHole
    \/ WriteHoleFail
    \/ WriteCopy
    \/ WriteCopyFault
    \/ WriteTail
    \/ WriteTailFail
    \/ WriteTailFault
    \/ WriteDone

\* A call that has been entered keeps running: osfs_write takes no lock
\* and waits for nothing, so its next statement is always executed.
SpecLive == Spec /\ WF_vars(WriteStep)

\* C18: every osfs_write call terminates, for every offset, length and
\* file state on a store of finitely many blocks: the walk, the hole loop
\* and the tail loop each finish, and the call returns a byte count or an
\* error.
\* (A loop finishes when the call leaves its stage; the stages follow
\* StageOrder, so a call that returns has finished each loop it entered.)
C18_WriteTerminates ==
    /\ (pc # "idle") ~>
          (Returned /\ ret.kind \in {"count", "ENOSPC", "EFAULT"})
    /\ [][pc' # pc => <<pc, pc'>> \in StageOrder]_vars

\* A call on a file with blocks that returned after its walk, its hole
\* loop and its tail loop each ran.
C18_Witness ==
    /\ Returned
    /\ ret.kind = "count"
    /\ pre.i_blocks > 0
    /\ pre.ppos > BLOCK_SIZE
    /\ i_blocks = pre.i_blocks + 2
    /\ bytes_written > FirstChunk(pre.ppos, len)

\* ----------------------------------------------------------------- C19
\* A step that is a whole osfs_read call.
ReadStep == pc = "idle" /\ op' = "read" /\ calls' # calls

\* Bytes the call returned: none when it returned an error.
BytesReturned(r) == IF r.kind = "count" THEN r.n ELSE 0

\* C19: osfs_read changes nothing but *ppos: the head block, i_size,
\* i_blocks, the fat table, the allocator's bitmap and every byte of the
\* store are as before the call, and *ppos has advanced by exactly the
\* number of bytes returned.
C19_ReadOnlyMovesCursor ==
    [][ReadStep =>
        /\ UNCHANGED <<bitmap, fat, data>>
        /\ UNCHANGED <<i_block, i_size, i_blocks, vfs_i_size, vfs_i_blocks>>
        /\ UNCHANGED <<owned, linked>>
        /\ ppos' = pre'.ppos + BytesReturned(ret')
        /\ Len(rbuf') = BytesReturned(ret')]_vars

\* A read that returned fewer bytes than it asked for, from beyond the
\* head block of a file with several blocks.
C19_Witness ==
    /\ ReadReturned
    /\ ret.kind = "count"
    /\ ret.n > 0
    /\ ret.n < len
    /\ pre.ppos >= BLOCK_SIZE
    /\ i_blocks > 1
    /\ ppos = pre.ppos + ret.n

====
